---- MODULE Spec2Model ----
(***************************************************************************)
(* HaploMapper (src/HaploMapper.py): basal haplogroup resolution and       *)
(* geotemporal aggregation.                                                *)
(*                                                                         *)
(* Text is a sequence of one-character strings, so that split, replace,    *)
(* startswith and len are computed as Python computes them.  A cell that   *)
(* may be missing (NaN / pd.NA / None) is a set with at most one element:  *)
(* {} is the missing value, {v} holds v.                                   *)
(***************************************************************************)
EXTENDS Integers, Sequences, FiniteSets, TLC

VARIABLES
    pc,                  \* position in the module-level pipeline (lines 562-592)
    files,               \* the lines of the five alias files
    anno,                \* the parsed annotation rows handed to open_data
    bin_choice,          \* the bin width returned by boot()
    dicts,               \* the five alias dictionaries built by read_dict_from_file
    nan_as_text,         \* what Series.astype('str') makes of a missing DateBins
    df,                  \* the DataFrame that y_df and mt_df both refer to
    y_haplo_data,        \* list of the Y resolver
    mt_haplo_data,       \* list of the MT resolver
    loop_y,              \* loop, the round counter of findYBasalHaplogroups
    loop_mt,             \* loop, the round counter of findMTBasalHaplogroups
    y_df,                \* y_df after createDummyVariables
    mt_df,               \* mt_df after createDummyVariables
    combined_df,         \* pd.merge(y_df, mt_df, how='outer')
    combined_df_inds,    \* site-level frequency table
    combined_df_nations  \* bin-level frequency table

vars == <<pc, files, anno, bin_choice, dicts, nan_as_text, df, y_haplo_data,
          mt_haplo_data, loop_y, loop_mt, y_df, mt_df, combined_df,
          combined_df_inds, combined_df_nations>>

(***************************************************************************)
(* Bounds of the model.                                                    *)
(***************************************************************************)
MaxRecords == 2

\* the longest raw label the clean-up is run on
MaxLen == 3

\* the longest alias file read_dict_from_file is run on
MaxLines == 2

(***************************************************************************)
(* Program constants.                                                      *)
(***************************************************************************)
MaxLoop == 50
BinStart == 0
BinEnd == 120000

\* "n/a", the value line 163 / 222 assigns when no table knows the key
Sentinel == <<"n", "/", "a">>

\* 'n/a(Female)', the value the while conditions of lines 146 / 207 exempt
FemaleSentinel == <<"n", "/", "a", "(", "F", "e", "m", "a", "l", "e", ")">>

\* ['#', "Root"], the no-parent markers of the phylogeny files
RootMarkers == {<<"#">>, <<"R", "o", "o", "t">>}

(***************************************************************************)
(* Missing values.                                                         *)
(***************************************************************************)
NaN == {}
Some(v) == {v}
IsNaN(c) == c = {}
Val(c) == CHOOSE v \in c : TRUE

(***************************************************************************)
(* Python string primitives.                                               *)
(***************************************************************************)
UpperCase == {"A", "B", "C", "D", "E", "F", "G", "H", "I", "J", "K", "L", "M",
              "N", "O", "P", "Q", "R", "S", "T", "U", "V", "W", "X", "Y", "Z"}
LowerCase == {"a", "b", "c", "d", "e", "f", "g", "h", "i", "j", "k", "l", "m",
              "n", "o", "p", "q", "r", "s", "t", "u", "v", "w", "x", "y", "z"}

\* str.isalpha() on one character
isalpha(c) == c \in UpperCase \cup LowerCase

\* s.startswith(c) for a one-character c
startswith(s, c) == Len(s) >= 1 /\ s[1] = c

\* s.split(c)[0]
SplitFirst(s, c) ==
    IF \E i \in 1..Len(s) : s[i] = c
    THEN LET i == CHOOSE k \in 1..Len(s) :
                      s[k] = c /\ \A j \in 1..(k - 1) : s[j] # c
         IN  SubSeq(s, 1, i - 1)
    ELSE s

\* s.replace(c, "")
RemoveChar(s, c) == SelectSeq(s, LAMBDA x : x # c)

\* s.replace(c, d), as df.replace(',', '.', regex=True) does in a text cell
ReplaceChar(s, c, d) == [i \in 1..Len(s) |-> IF s[i] = c THEN d ELSE s[i]]

DigitChars == <<"0", "1", "2", "3", "4", "5", "6", "7", "8", "9">>

\* str(n) / f"{n}" of a non-negative int
RECURSIVE IntToStr(_)
IntToStr(n) ==
    IF n < 10 THEN <<DigitChars[n + 1]>>
    ELSE IntToStr(n \div 10) \o <<DigitChars[(n % 10) + 1]>>

\* int(t) of a text of digits
RECURSIVE StrToInt(_)
StrToInt(t) ==
    IF t = <<>> THEN 0
    ELSE 10 * StrToInt(SubSeq(t, 1, Len(t) - 1))
         + (CHOOSE d \in 0..9 : DigitChars[d + 1] = t[Len(t)])

\* int(t) raises ValueError unless t is a number; the texts of the model
\* hold no sign, blank or underscore
IsIntText(t) ==
    /\ t # <<>>
    /\ \A k \in 1..Len(t) : \E d \in 1..10 : DigitChars[d] = t[k]

(***************************************************************************)
(* Python dicts: the items in insertion order, as <<key, value>> pairs.    *)
(***************************************************************************)
DictHas(d, k) == \E i \in 1..Len(d) : d[i][1] = k
DictGet(d, k) == d[CHOOSE i \in 1..Len(d) : d[i][1] = k][2]

\* d[k] = v
DictSet(d, k, v) ==
    IF DictHas(d, k)
    THEN [i \in 1..Len(d) |-> IF d[i][1] = k THEN <<k, v>> ELSE d[i]]
    ELSE Append(d, <<k, v>>)

\* {v: k for k, v in d.items()}
RECURSIVE InvertFrom(_, _, _)
InvertFrom(d, i, acc) ==
    IF i > Len(d) THEN acc
    ELSE InvertFrom(d, i + 1, DictSet(acc, d[i][2], d[i][1]))

InvertDict(d) == InvertFrom(d, 1, <<>>)

(***************************************************************************)
(* read_dict_from_file (lines 122-129 and 179-186, the same function in    *)
(* both resolvers).  A file is the sequence of its lines, a line a text    *)
(* without its line break.                                                 *)
(***************************************************************************)
\* the characters \s matches and str.strip() removes, as far as a line of
\* the model holds them
Whitespace == {" ", "\t"}

\* line.strip()
Strip(t) ==
    LET solid == {k \in 1..Len(t) : t[k] \notin Whitespace}
    IN  IF solid = {} THEN <<>>
        ELSE SubSeq(t, CHOOSE a \in solid : \A k \in solid : a <= k,
                       CHOOSE b \in solid : \A k \in solid : k <= b)

\* space_to_tab.sub(split_char, t), from position i on: every run of
\* whitespace becomes one tab
RECURSIVE SpaceToTabFrom(_, _)
SpaceToTabFrom(t, i) ==
    IF i > Len(t) THEN <<>>
    ELSE IF t[i] \notin Whitespace THEN <<t[i]>> \o SpaceToTabFrom(t, i + 1)
    ELSE IF i > 1 /\ t[i - 1] \in Whitespace THEN SpaceToTabFrom(t, i + 1)
    ELSE <<"\t">> \o SpaceToTabFrom(t, i + 1)

SpaceToTab(t) == SpaceToTabFrom(t, 1)

\* t.split(c): the list of parts, [''] for the empty text
RECURSIVE Split(_, _)
Split(t, c) ==
    IF \E k \in 1..Len(t) : t[k] = c
    THEN <<SplitFirst(t, c)>>
         \o Split(SubSeq(t, Len(SplitFirst(t, c)) + 2, Len(t)), c)
    ELSE <<t>>

\* the parts of one line (line 126)
Parts(line) == Split(SpaceToTab(Strip(line)), "\t")

\* the loop of lines 125-128 from line i on, with a line kept only when it
\* has more than max(key_index, value_index) + 1 parts
RECURSIVE ReadLinesFrom_Strict(_, _, _, _, _)
ReadLinesFrom_Strict(lines, i, key_index, value_index, result_dict) ==
    IF i > Len(lines) THEN result_dict
    ELSE LET parts == Parts(lines[i])
             most  == IF key_index > value_index THEN key_index
                      ELSE value_index
         IN  ReadLinesFrom_Strict(lines, i + 1, key_index, value_index,
                 IF Len(parts) > most + 1
                 THEN DictSet(result_dict, Strip(parts[key_index + 1]),
                              Strip(parts[value_index + 1]))
                 ELSE result_dict)

\* the loop of lines 125-128 from line i on; the indices count from 0
RECURSIVE ReadLinesFrom(_, _, _, _, _)
ReadLinesFrom(lines, i, key_index, value_index, result_dict) ==
    IF i > Len(lines) THEN result_dict
    ELSE LET parts == Parts(lines[i])
             most  == IF key_index > value_index THEN key_index
                      ELSE value_index
         IN  ReadLinesFrom(lines, i + 1, key_index, value_index,
                 IF Len(parts) >= most + 1
                 THEN DictSet(result_dict, Strip(parts[key_index + 1]),
                              Strip(parts[value_index + 1]))
                 ELSE result_dict)

read_dict_from_file(lines, key_index, value_index) ==
    ReadLinesFrom(lines, 1, key_index, value_index, <<>>)

(***************************************************************************)
(* Label clean-up (lines 137 and 199, the same expression in both tracks). *)
(***************************************************************************)
\* the clean-up without its last replace
CleanHaplo_NoStar(haplo) ==
    RemoveChar(SplitFirst(SplitFirst(SplitFirst(haplo, ";"), "-"), "("), "~")

CleanHaplo(haplo) ==
    RemoveChar(
        RemoveChar(SplitFirst(SplitFirst(SplitFirst(haplo, ";"), "-"), "("),
                   "~"),
        "*")

CleanList(col) == [i \in 1..Len(col) |-> CleanHaplo(col[i])]

(***************************************************************************)
(* The resolvers.                                                          *)
(***************************************************************************)
\* the while condition without its round bound
WhileCondition_NoBound(data, n) ==
    \E i \in 1..Len(data) : Len(data[i]) > 1 /\ data[i] # FemaleSentinel

\* the while condition with all() in the place of any()
WhileCondition_All(data, n) ==
    /\ \A i \in 1..Len(data) : Len(data[i]) > 1 /\ data[i] # FemaleSentinel
    /\ n < MaxLoop

\* the while condition of lines 146 and 207
WhileCondition(data, n) ==
    /\ \E i \in 1..Len(data) : Len(data[i]) > 1 /\ data[i] # FemaleSentinel
    /\ n < MaxLoop

\* the Y round with the locus file consulted before the SNP file
YUpdate_LocusFirst(haplo, y_basal_dict, y_snp_dict_inv, y_locus_dict) ==
    IF Len(haplo) > 1
    THEN IF /\ DictHas(y_basal_dict, haplo)
            /\ DictGet(y_basal_dict, haplo) \notin RootMarkers
         THEN DictGet(y_basal_dict, haplo)
         ELSE IF DictHas(y_locus_dict, haplo)
         THEN DictGet(y_locus_dict, haplo)
         ELSE IF DictHas(y_snp_dict_inv, haplo)
         THEN DictGet(y_snp_dict_inv, haplo)
         ELSE Sentinel
    ELSE haplo

\* the Y round without the test of line 151
YUpdate_AnyLength(haplo, y_basal_dict, y_snp_dict_inv, y_locus_dict) ==
    IF /\ DictHas(y_basal_dict, haplo)
       /\ DictGet(y_basal_dict, haplo) \notin RootMarkers
    THEN DictGet(y_basal_dict, haplo)
    ELSE IF DictHas(y_snp_dict_inv, haplo)
    THEN DictGet(y_snp_dict_inv, haplo)
    ELSE IF DictHas(y_locus_dict, haplo)
    THEN DictGet(y_locus_dict, haplo)
    ELSE Sentinel

\* lines 151-163: what one round writes at the index of haplo
YUpdate(haplo, y_basal_dict, y_snp_dict_inv, y_locus_dict) ==
    IF Len(haplo) > 1
    THEN IF /\ DictHas(y_basal_dict, haplo)
            /\ DictGet(y_basal_dict, haplo) \notin RootMarkers
         THEN DictGet(y_basal_dict, haplo)
         ELSE IF DictHas(y_snp_dict_inv, haplo)
         THEN DictGet(y_snp_dict_inv, haplo)
         ELSE IF DictHas(y_locus_dict, haplo)
         THEN DictGet(y_locus_dict, haplo)
         ELSE Sentinel
    ELSE haplo

\* the MT round with the mutation file consulted before the phylogeny file
MTUpdate_MutationFirst(haplo, mt_basal_dict, mutant_dict_inv) ==
    IF Len(haplo) > 1
    THEN IF DictHas(mutant_dict_inv, haplo)
         THEN DictGet(mutant_dict_inv, haplo)
         ELSE IF /\ DictHas(mt_basal_dict, haplo)
                 /\ DictGet(mt_basal_dict, haplo) \notin RootMarkers
         THEN DictGet(mt_basal_dict, haplo)
         ELSE Sentinel
    ELSE haplo

\* lines 213-222
MTUpdate(haplo, mt_basal_dict, mutant_dict_inv) ==
    IF Len(haplo) > 1
    THEN IF /\ DictHas(mt_basal_dict, haplo)
            /\ DictGet(mt_basal_dict, haplo) \notin RootMarkers
         THEN DictGet(mt_basal_dict, haplo)
         ELSE IF DictHas(mutant_dict_inv, haplo)
         THEN DictGet(mutant_dict_inv, haplo)
         ELSE Sentinel
    ELSE haplo

\* the for loop of lines 149-163, from index i to the end of the list; every
\* index reads and writes only its own element
RECURSIVE YRoundFrom(_, _, _)
YRoundFrom(data, i, d) ==
    IF i > Len(data) THEN <<>>
    ELSE <<YUpdate(data[i], d.y_basal_dict, InvertDict(d.y_snp_dict),
                   d.y_locus_dict)>> \o YRoundFrom(data, i + 1, d)

YRoundOf(data, d) == YRoundFrom(data, 1, d)

\* the for loop of lines 211-222, from index i to the end of the list
RECURSIVE MTRoundFrom(_, _, _)
MTRoundFrom(data, i, d) ==
    IF i > Len(data) THEN <<>>
    ELSE <<MTUpdate(data[i], d.mt_basal_dict, InvertDict(d.mutant_dict))>>
         \o MTRoundFrom(data, i + 1, d)

MTRoundOf(data, d) == MTRoundFrom(data, 1, d)

\* df[column] = values
SetColumn(frame, column, values) ==
    [i \in 1..Len(frame) |-> [frame[i] EXCEPT ![column] = values[i]]]

Column(frame, column) == [i \in 1..Len(frame) |-> frame[i][column]]

(***************************************************************************)
(* open_data (lines 46-81).  An annotation row has the fields              *)
(*   id     'Master ID'                                                    *)
(*   lat    'Lat.'   long  'Long.'   age  'Date mean in BP ...'            *)
(*   entity 'Political Entity'                                             *)
(*   y      'Y haplogroup (manual curation in ISOGG format)'               *)
(*   mt     'mtDNA haplogroup if >2x or published'                         *)
(* A raw numeric cell is [kind, v]: kind "num" is a cell that holds the    *)
(* number v, kind "text" one that holds text pd.to_numeric cannot parse,   *)
(* kind "na" an empty cell.  A raw text cell is NaN or Some(text).         *)
(***************************************************************************)
DotDot == <<".", ".">>

\* lines 58 and 61 on a text cell: ',' becomes '.', then a cell that is
\* exactly '..' becomes pd.NA
ReplaceText(c) ==
    IF IsNaN(c) THEN NaN
    ELSE LET t == ReplaceChar(Val(c), ",", ".")
         IN  IF t = DotDot THEN NaN ELSE Some(t)

\* pd.to_numeric(cell, errors='coerce') of lines 71-72
ToNumeric(c) == IF c.kind = "num" THEN Some(c.v) ELSE NaN

\* lines 67-68: str(age).isnumeric() keeps digit-only ages
SampleAge(c) == IF c.kind = "num" /\ c.v >= 0 THEN Some(c.v) ELSE NaN

\* DataFrame.dropna(subset=[column]) for a raw numeric column
DropNaNumeric(rows, column) ==
    SelectSeq(rows, LAMBDA r : r[column].kind # "na")

\* DataFrame.dropna(subset=[column]) for a text column
DropNa(rows, column) == SelectSeq(rows, LAMBDA r : ~IsNaN(r[column]))

open_data(rows) ==
    LET replaced == [i \in 1..Len(rows) |->
                        [rows[i] EXCEPT !.entity = ReplaceText(@),
                                        !.y = ReplaceText(@),
                                        !.mt = ReplaceText(@)]]
        located  == DropNaNumeric(DropNaNumeric(replaced, "lat"), "long")
        numeric  == [i \in 1..Len(located) |->
                        [located[i] EXCEPT !.age = SampleAge(@),
                                           !.lat = ToNumeric(@),
                                           !.long = ToNumeric(@)]]
        \* y_df and mt_df are the same object: both dropna calls of lines
        \* 78-79 remove rows of the one frame
        kept     == DropNa(DropNa(numeric, "y"), "mt")
    IN  [i \in 1..Len(kept) |->
            [id |-> kept[i].id, lat |-> kept[i].lat, long |-> kept[i].long,
             age |-> kept[i].age, entity |-> kept[i].entity,
             y |-> Val(kept[i].y), mt |-> Val(kept[i].mt),
             DateBins |-> NaN, CombinedBins |-> NaN, mt_updated |-> NaN]]

(***************************************************************************)
(* create_bins (lines 83-107).                                             *)
(***************************************************************************)
\* the last element of list(range(start, end + bin_size, bin_size))
LastEdge(bin_size) ==
    BinStart + bin_size * ((BinEnd - BinStart + bin_size - 1) \div bin_size)

\* the label with the upper edge of the bin as its second number
BinLabel_UpperEdge(i, bin_size) ==
    IntToStr(i) \o <<"-">> \o IntToStr(i + bin_size)

\* labels[k] = f"{i}-{i + bin_size - 1}" for the bin that starts at i
BinLabel(i, bin_size) ==
    IntToStr(i) \o <<"-">> \o IntToStr(i + bin_size - 1)

\* pd.cut with its default right=True: the bins are (low, low + bin_size]
Cut_RightClosed(age, bin_size) ==
    IF IsNaN(age) THEN NaN
    ELSE IF Val(age) > BinStart /\ Val(age) <= LastEdge(bin_size)
    THEN Some(BinLabel(
             BinStart + bin_size * ((Val(age) - BinStart - 1) \div bin_size),
             bin_size))
    ELSE NaN

\* pd.cut(age, bins=bins, labels=labels, right=False) for one cell
Cut(age, bin_size) ==
    IF IsNaN(age) THEN NaN
    ELSE IF Val(age) >= BinStart /\ Val(age) < LastEdge(bin_size)
    THEN Some(BinLabel(
             BinStart + bin_size * ((Val(age) - BinStart) \div bin_size),
             bin_size))
    ELSE NaN

\* DateBins.astype('str') for one cell.  A missing category becomes the
\* text 'nan' where astype builds Python strings, and stays missing where
\* 'str' is the NA-aware string dtype: both outcomes are kept.
AsTypeStr(c, as_text) ==
    IF IsNaN(c) THEN (IF as_text THEN Some(<<"n", "a", "n">>) ELSE NaN)
    ELSE c

\* entity + " (" + bins + "BP)" for one row; a missing operand gives NaN
Combine(entity, bins) ==
    IF IsNaN(entity) \/ IsNaN(bins) THEN NaN
    ELSE Some(Val(entity) \o <<" ", "(">> \o Val(bins) \o <<"B", "P", ")">>)

create_bins(frame, bin_size, as_text) ==
    [i \in 1..Len(frame) |->
        LET bins == Cut(frame[i].age, bin_size)
        IN  [frame[i] EXCEPT
                !.DateBins = bins,
                !.CombinedBins =
                    Combine(frame[i].entity, AsTypeStr(bins, as_text))]]

(***************************************************************************)
(* findYBasalHaplogroups and findMTBasalHaplogroups as whole functions.    *)
(***************************************************************************)
\* the while loop of lines 146-165; the column of y_df is assigned at the
\* end of every round, so it keeps the raw labels when no round runs
RECURSIVE YResolve(_, _, _, _)
YResolve(data, n, column, d) ==
    IF WhileCondition(data, n)
    THEN LET next == YRoundOf(data, d)
         IN  YResolve(next, n + 1, next, d)
    ELSE [data |-> data, loop |-> n, column |-> column]

\* the while loop of lines 207-222
RECURSIVE MTResolve(_, _, _)
MTResolve(data, n, d) ==
    IF WhileCondition(data, n)
    THEN MTResolve(MTRoundOf(data, d), n + 1, d)
    ELSE [data |-> data, loop |-> n]

(***************************************************************************)
(* createDummyVariables (lines 230-279).                                   *)
(***************************************************************************)
\* sum of f over the finite set S
RECURSIVE SumOver(_, _)
SumOver(f, S) ==
    IF S = {} THEN 0
    ELSE LET x == CHOOSE e \in S : TRUE
         IN  f[x] + SumOver(f, S \ {x})

\* the columns of pd.get_dummies(column): the distinct labels
DummyColumns(labels) == {labels[i] : i \in 1..Len(labels)}

\* col[0] of the list comprehension of lines 242-243 raises IndexError for
\* the label '' (startswith('n') is False there, so col[0] is evaluated)
KeepRaises(labels) == <<>> \in DummyColumns(labels)

\* the filter that keeps single-letter columns only
ColsToKeep_SingleLetter(labels) ==
    {col \in DummyColumns(labels) :
        ~startswith(col, "n") /\ isalpha(col[1]) /\ Len(col) = 1}

\* lines 242-243: [col ... if not col.startswith('n') and col[0].isalpha()]
ColsToKeep(labels) ==
    {col \in DummyColumns(labels) : ~startswith(col, "n") /\ isalpha(col[1])}

\* lines 250-251: set(col[0] for col in dummies.columns)
UniqueStartingLetters(labels) == {col[1] : col \in ColsToKeep(labels)}

\* the per-letter sums without the dummy values: every kept column counts
\* in every row
LetterSums_AllRows(label, labels) ==
    [letter \in UniqueStartingLetters(labels) |->
        Cardinality({col \in ColsToKeep(labels) : startswith(col, letter)})]

\* lines 254-261 for one row: dummies[cols_to_sum].sum(axis=1) per letter,
\* the dummy of a column being 1 in the rows that carry that label
LetterSums(label, labels) ==
    [letter \in UniqueStartingLetters(labels) |->
        Cardinality({col \in ColsToKeep(labels) :
                         startswith(col, letter) /\ col = label})]

\* the total taken over the label dummies as well as the '_sum' columns
HaplosSum_Unfiltered(sums) == 2 * SumOver(sums, DOMAIN sums)

\* lines 264-269 for one row: the sum over the columns named like '_sum',
\* which are the per-letter sums as long as no label contains '_sum'
HaplosSum(sums) == SumOver(sums, DOMAIN sums)

\* lines 238-277; the Y dummies are read from the Y column of the frame,
\* the MT dummies from the raw 'mtDNA haplogroup if >2x or published'
YDummies(frame) ==
    [i \in 1..Len(frame) |->
        LET sums == LetterSums(frame[i].y, Column(frame, "y"))
        IN  frame[i] @@ [y_sum |-> sums, y_haplos_sum |-> HaplosSum(sums)]]

MTDummies(frame) ==
    [i \in 1..Len(frame) |->
        LET sums == LetterSums(frame[i].mt, Column(frame, "mt"))
        IN  frame[i] @@ [mt_sum |-> sums, mt_haplos_sum |-> HaplosSum(sums)]]

(***************************************************************************)
(* pd.merge(y_df, mt_df, on=['Master ID', 'CombinedBins', 'Lat.', 'Long.'],*)
(* how='outer') (line 579).  Both frames hold the same rows, so every row  *)
(* finds at least itself and no row stays unmatched; missing keys match    *)
(* each other.  The rows are listed in left-then-right order; the order in *)
(* which the join sorts its keys is not modelled.                          *)
(***************************************************************************)
MergeKey(r) == <<r.id, r.CombinedBins, r.lat, r.long>>

MergedRow(l, r) ==
    [id |-> l.id, CombinedBins |-> l.CombinedBins,
     lat |-> l.lat, long |-> l.long,
     y_x |-> l.y, y_y |-> r.y, mt_x |-> l.mt, mt_y |-> r.mt,
     age_x |-> l.age, age_y |-> r.age,
     DateBins_x |-> l.DateBins, DateBins_y |-> r.DateBins,
     y_sum |-> l.y_sum, y_haplos_sum |-> l.y_haplos_sum,
     mt_sum |-> r.mt_sum, mt_haplos_sum |-> r.mt_haplos_sum]

RECURSIVE MergeFrom(_, _, _, _)
MergeFrom(left, right, i, j) ==
    IF i > Len(left) THEN <<>>
    ELSE IF j > Len(right) THEN MergeFrom(left, right, i + 1, 1)
    ELSE (IF MergeKey(left[i]) = MergeKey(right[j])
          THEN <<MergedRow(left[i], right[j])>>
          ELSE <<>>) \o MergeFrom(left, right, i, j + 1)

merge(left, right) == MergeFrom(left, right, 1, 1)

(***************************************************************************)
(* createTable (lines 281-315).                                            *)
(***************************************************************************)
\* series.sum() of a numeric series
RECURSIVE SeriesSum(_)
SeriesSum(series) ==
    IF series = <<>> THEN 0
    ELSE Head(series) + SeriesSum(Tail(series))

\* series.sum() of a numeric series that may hold NaN (skipna=True)
NanSum(series) ==
    SeriesSum([i \in 1..Len(series) |->
                  IF IsNaN(series[i]) THEN 0 ELSE Val(series[i])])

\* series.dropna().iloc[0] if not series.dropna().empty else None
FirstNonNa(series) ==
    IF \E i \in 1..Len(series) : ~IsNaN(series[i])
    THEN series[CHOOSE i \in 1..Len(series) :
                    /\ ~IsNaN(series[i])
                    /\ \A j \in 1..(i - 1) : IsNaN(series[j])]
    ELSE NaN

\* custom_aggregate over the count columns (float64) of one group
SumColumns(rows) ==
    LET y_letters  == IF rows = <<>> THEN {} ELSE DOMAIN rows[1].y_sum
        mt_letters == IF rows = <<>> THEN {} ELSE DOMAIN rows[1].mt_sum
    IN  [y_sum |-> [c \in y_letters |->
                        SeriesSum([i \in 1..Len(rows) |-> rows[i].y_sum[c]])],
         y_haplos_sum |-> SeriesSum(Column(rows, "y_haplos_sum")),
         mt_sum |-> [c \in mt_letters |->
                        SeriesSum([i \in 1..Len(rows) |-> rows[i].mt_sum[c]])],
         mt_haplos_sum |-> SeriesSum(Column(rows, "mt_haplos_sum"))]

SiteKey(r) == <<r.lat, r.long, r.CombinedBins>>

\* groupby drops the rows in which a key is missing (dropna=True)
SiteKeys(frame) ==
    {SiteKey(frame[i]) : i \in {k \in 1..Len(frame) :
        /\ ~IsNaN(frame[k].lat)
        /\ ~IsNaN(frame[k].long)
        /\ ~IsNaN(frame[k].CombinedBins)}}

\* line 297: groupby(['Lat.', 'Long.', 'CombinedBins']).agg(custom_aggregate);
\* the counts and the age are numeric columns, 'Master ID' and DateBins are
\* not
SiteLevel(frame) ==
    [key \in SiteKeys(frame) |->
        LET rows == SelectSeq(frame, LAMBDA r : SiteKey(r) = key)
        IN  SumColumns(rows) @@
            [id |-> FirstNonNa([i \in 1..Len(rows) |-> Some(rows[i].id)]),
             age_x |-> NanSum(Column(rows, "age_x")),
             age_y |-> NanSum(Column(rows, "age_y")),
             DateBins_x |-> FirstNonNa(Column(rows, "DateBins_x")),
             DateBins_y |-> FirstNonNa(Column(rows, "DateBins_y"))]]

BinKeys(frame) ==
    {frame[i].CombinedBins : i \in {k \in 1..Len(frame) :
        ~IsNaN(frame[k].CombinedBins)}}

\* pd.to_numeric(column, errors='coerce') of lines 311-312 on a float cell
CoerceTotal(v) == v

\* lines 300-312: groupby(['CombinedBins']).agg(agg_dict) over the merged
\* frame that createTable received, then the coercion of the two totals
BinLevel(frame) ==
    [key \in BinKeys(frame) |->
        LET rows == SelectSeq(frame, LAMBDA r : r.CombinedBins = key)
            sums == SumColumns(rows)
        IN  [sums EXCEPT !.y_haplos_sum = CoerceTotal(@),
                         !.mt_haplos_sum = CoerceTotal(@)]]

(***************************************************************************)
(* createWebApplication, the columns it adds to the site-level table       *)
(* (lines 369-381).  Every bin key holds " (", so each split has two       *)
(* parts.                                                                  *)
(***************************************************************************)
\* t.split(c, n=1)[1]
SplitRest(t, c) == SubSeq(t, Len(SplitFirst(t, c)) + 2, Len(t))

\* line 369: the text between the first '(' and the next ')'
TimeOf(key) == SplitFirst(SplitRest(key, "("), ")")

\* lines 370-376: len(parts) is the number of rows of the table
CountryOf(key, rows) ==
    IF rows > 2
    THEN SplitFirst(key, " ") \o <<" ">> \o SplitRest(key, " ")
    ELSE SplitFirst(key, " ")

\* line 381 raises ValueError for a Time that does not start with a number
SortKeyRaises(table) ==
    \E k \in DOMAIN table : ~IsIntText(SplitFirst(TimeOf(Val(k[3])), "-"))

\* lines 379-380
WithTimeAndCountry(table) ==
    [k \in DOMAIN table |->
        table[k] @@ [Time |-> TimeOf(Val(k[3])),
                     Country |-> CountryOf(Val(k[3]),
                                           Cardinality(DOMAIN table))]]

\* line 381
WithSortKey(table) ==
    [k \in DOMAIN table |->
        table[k] @@ [SortKey |-> StrToInt(SplitFirst(table[k].Time, "-"))]]

(***************************************************************************)
(* Inputs of the model: labels, alias dictionaries and annotation rows.    *)
(***************************************************************************)
L_R1b_tilde == <<"R", "1", "b", "~">>
L_R1b == <<"R", "1", "b">>
L_R1 == <<"R", "1">>
L_R == <<"R">>
L_A1 == <<"A", "1">>
L_B1 == <<"B", "1">>
L_Z9 == <<"Z", "9">>
L_M1 == <<"M", "1">>
L_H1 == <<"H", "1">>
L_H == <<"H">>
L_tilde == <<"~">>
L_tilde_R == <<"~", "R">>
L_K2 == <<"K", "2">>
L_Root == <<"R", "o", "o", "t">>
L_one == <<"1">>
L_female == <<"n", "/", "a", " ", "(", "f", "e", "m", "a", "l", "e", ")">>

\* phylogeny files (key -> parent): empty; a chain, a cycle, a root marker,
\* a letter with a parent and a parent under another letter; the sentinel
\* as a key, 'n/a(Female)' as a value and a '#' marker
Hierarchies ==
    { <<>>,
      << <<L_R1b, L_R1>>, <<L_R1, L_R>>, <<L_A1, L_B1>>, <<L_B1, L_A1>>,
         <<L_M1, L_Root>>, <<L_H1, L_H>>, <<L_R, <<"P">>>>, <<L_K2, L_R>> >>,
      << <<Sentinel, L_R>>, <<L_Z9, FemaleSentinel>>, <<L_R1b, <<"#">>>> >> }

\* SNP / mutation files (read key -> value, used value -> key): empty; two
\* keys with one value, the sentinel as a value, a letter as a value
CrossRefs ==
    { <<>>,
      << <<<<"M">>, L_M1>>, <<<<"N">>, L_M1>>, <<<<"Q">>, Sentinel>>,
         <<<<"P">>, L_R1b>>, <<L_B1, L_R>> >> }

\* locus files (key -> value)
Loci ==
    { <<>>,
      << <<L_M1, <<"K">>>>, <<L_Z9, <<"J">>>>, <<L_R1b, <<"X">>>>,
         <<L_R, L_A1>> >> }

AliasDicts(basal, snp, locus) ==
    [y_basal_dict |-> basal, y_snp_dict |-> snp, y_locus_dict |-> locus,
     mt_basal_dict |-> basal, mutant_dict |-> snp]

\* a phylogeny file that holds the items of d: key and parent
BasalFile(d) == [i \in 1..Len(d) |-> d[i][1] \o <<"\t">> \o d[i][2]]

\* an SNP, mutation or locus file that holds the items of d: the key is the
\* second field of a line, the value the fourth
CrossRefFile(d) ==
    [i \in 1..Len(d) |->
        <<"x", "\t">> \o d[i][1] \o <<"\t", "y", "\t">> \o d[i][2]]

\* the five files the dictionaries d are read from
FilesOf(d) ==
    [y_basal_file |-> BasalFile(d.y_basal_dict),
     y_snp_file |-> CrossRefFile(d.y_snp_dict),
     y_locus_file |-> CrossRefFile(d.y_locus_dict),
     mt_basal_file |-> BasalFile(d.mt_basal_dict),
     mt_snp_file |-> CrossRefFile(d.mutant_dict)]

\* lines of an alias file: empty, blank, one to five fields, spaces and
\* tabs in runs and around the line, keys that occur twice
DictLines ==
    { <<>>,
      <<" ">>,
      <<"A", "1">>,
      <<"A", "1", " ", "B", "1">>,
      <<" ", "A", "1", " ", "\t", " ", "R", " ">>,
      <<"A", "1", " ", " ", "B", "1", " ", " ", "C">>,
      <<"x", " ", "A", "1", " ", "y">>,
      <<"x", " ", "A", "1", " ", "y", " ", "R">>,
      <<"x", "\t", "B", "1", "\t", "y", "\t", "Q", "\t", "z">> }

\* the files of at most MaxLines lines
DictFiles == UNION {[1..n -> DictLines] : n \in 0..MaxLines}

\* every combination of the files above
AliasConfigs ==
    {AliasDicts(b, s, l) : b \in Hierarchies, s \in CrossRefs, l \in Loci}

Num(v) == [kind |-> "num", v |-> v]
BadText == [kind |-> "text", v |-> 0]
Empty == [kind |-> "na", v |-> 0]

Peru == <<"P", "e", "r", "u">>
SriLanka == <<"S", "r", "i", " ", "L", "a", "n", "k", "a">>

AnnoRow(id, lat, long, age, entity, y, mt) ==
    [id |-> id, lat |-> lat, long |-> long, age |-> age,
     entity |-> entity, y |-> y, mt |-> mt]

\* rows of the annotation file the pipeline is run on
Candidates ==
    { AnnoRow(1, Num(10), Num(20), Num(500), Some(Peru),
              Some(L_R1b_tilde), Some(L_H1)),
      AnnoRow(2, Num(10), Num(20), Num(500), Some(Peru),
              Some(L_A1), Some(L_H)),
      AnnoRow(1, Num(10), Num(20), Num(500), Some(Peru),
              Some(L_Z9), Some(L_Z9)),
      AnnoRow(3, BadText, Num(20), Num(500), Some(Peru),
              Some(L_R), Some(L_H)),
      AnnoRow(4, Num(10), Num(20), BadText, Some(Peru),
              Some(L_R), Some(L_H1)),
      AnnoRow(5, Num(11), Num(20), Num(1500), Some(SriLanka),
              Some(L_R), Some(L_H)),
      AnnoRow(6, Empty, Num(20), Num(500), Some(Peru),
              Some(L_R), Some(L_H)),
      AnnoRow(7, Num(10), Num(20), Num(500), Some(Peru),
              Some(DotDot), Some(L_H)),
      AnnoRow(8, Num(10), Num(20), Num(500), Some(Peru),
              Some(L_tilde), Some(L_H)),
      AnnoRow(9, Num(10), BadText, Num(1500), Some(Peru),
              Some(L_M1), Some(L_M1)),
      AnnoRow(10, Num(10), Num(20), Num(500), Some(Peru),
              Some(L_female), Some(L_H1)),
      AnnoRow(11, Num(11), Num(20), Num(120000), Some(SriLanka),
              Some(L_R1b_tilde), Some(L_H)),
      AnnoRow(12, Num(11), Num(20), Num(1500), NaN,
              Some(L_R), Some(L_H)),
      AnnoRow(13, Num(10), Num(20), Num(500), Some(Peru),
              Some(L_tilde_R), Some(L_K2)) }

PipelineConfigs ==
    {c \in AliasConfigs :
        \/ Len(c.y_basal_dict) = 8 /\ c.y_snp_dict = <<>> /\ c.y_locus_dict = <<>>
        \/ Len(c.y_basal_dict) = 3 /\ c.y_snp_dict # <<>> /\ c.y_locus_dict # <<>>}

BinChoices == {1000, 70000}

\* labels the resolvers are run on round by round
ResolverLabels ==
    {L_R1b_tilde, L_R, L_A1, L_Z9, L_tilde, L_M1, L_one, L_female}

ResolverCandidates ==
    {AnnoRow(1, Num(10), Num(20), Num(500), Some(Peru), Some(l), Some(l)) :
        l \in ResolverLabels}

\* bin widths create_bins is run with: 1, widths that divide the domain,
\* widths that do not, the domain itself and a width beyond it
BinWidths == {1, 7, 1000, 70000, 120000, 130000}

\* ages around the edges of these bins and of the domain
BinAges == {0, 1, 6, 7, 999, 1000, 69999, 70000, 119999, 120000, 120001,
            129999, 130000, 139999, 140000}

\* every age in one region, and two ages in another region and in none
BinCandidates ==
    {AnnoRow(1, Num(10), Num(20), age, Some(Peru), Some(L_R), Some(L_H)) :
        age \in {Num(a) : a \in BinAges} \cup {BadText}}
    \cup
    {AnnoRow(1, Num(10), Num(20), Num(a), entity, Some(L_R), Some(L_H)) :
        a \in {7, 120000}, entity \in {Some(SriLanka), NaN}}

\* every raw label of at most MaxLen characters over two letters, the
\* space, the three separators and the two markers
NormChars == {"A", "B", " ", ";", "-", "(", "~", "*"}
NormLabels == UNION {[1..n -> NormChars] : n \in 1..MaxLen}

\* the non-empty batches of at most MaxRecords rows
Batches(rows) == UNION {[1..n -> rows] : n \in 1..MaxRecords}

(***************************************************************************)
(* The module-level pipeline (lines 562-581), one action per call.         *)
(***************************************************************************)
Init ==
    /\ pc = "boot"
    /\ anno \in Batches(Candidates)
    /\ bin_choice \in BinChoices
    /\ dicts \in PipelineConfigs
    /\ files = FilesOf(dicts)
    /\ nan_as_text \in BOOLEAN
    /\ df = <<>>
    /\ y_haplo_data = <<>>
    /\ mt_haplo_data = <<>>
    /\ loop_y = 0
    /\ loop_mt = 0
    /\ y_df = <<>>
    /\ mt_df = <<>>
    /\ combined_df = <<>>
    /\ combined_df_inds = <<>>
    /\ combined_df_nations = <<>>

\* line 572
OpenData ==
    /\ pc = "boot"
    /\ df' = open_data(anno)
    /\ pc' = "opened"
    /\ UNCHANGED <<files, anno, bin_choice, dicts, nan_as_text, y_haplo_data,
                   mt_haplo_data, loop_y, loop_mt, y_df, mt_df, combined_df,
                   combined_df_inds, combined_df_nations>>

\* line 573
CreateBins ==
    /\ pc = "opened"
    /\ df' = create_bins(df, bin_choice, nan_as_text)
    /\ pc' = "binned"
    /\ UNCHANGED <<files, anno, bin_choice, dicts, nan_as_text, y_haplo_data,
                   mt_haplo_data, loop_y, loop_mt, y_df, mt_df, combined_df,
                   combined_df_inds, combined_df_nations>>

\* line 574
FindYBasalHaplogroups ==
    /\ pc = "binned"
    /\ LET r == YResolve(CleanList(Column(df, "y")), 0, Column(df, "y"), dicts)
       IN  /\ y_haplo_data' = r.data
           /\ loop_y' = r.loop
           /\ df' = SetColumn(df, "y", r.column)
    /\ pc' = "y_done"
    /\ UNCHANGED <<files, anno, bin_choice, dicts, nan_as_text, mt_haplo_data,
                   loop_mt, y_df, mt_df, combined_df, combined_df_inds,
                   combined_df_nations>>

\* line 575
FindMTBasalHaplogroups ==
    /\ pc = "y_done"
    /\ LET r == MTResolve(CleanList(Column(df, "mt")), 0, dicts)
       IN  /\ mt_haplo_data' = r.data
           /\ loop_mt' = r.loop
           /\ df' = SetColumn(df, "mt_updated",
                              [i \in 1..Len(df) |-> Some(r.data[i])])
    /\ pc' = "mt_done"
    /\ UNCHANGED <<files, anno, bin_choice, dicts, nan_as_text, y_haplo_data,
                   loop_y, y_df, mt_df, combined_df, combined_df_inds,
                   combined_df_nations>>

DummiesRaise == KeepRaises(Column(df, "y")) \/ KeepRaises(Column(df, "mt"))

\* line 576
CreateDummyVariables ==
    /\ pc = "mt_done"
    /\ ~DummiesRaise
    /\ y_df' = YDummies(df)
    /\ mt_df' = MTDummies(df)
    /\ pc' = "encoded"
    /\ UNCHANGED <<files, anno, bin_choice, dicts, nan_as_text, df, y_haplo_data,
                   mt_haplo_data, loop_y, loop_mt, combined_df, combined_df_inds,
                   combined_df_nations>>

\* line 576 when a label is '': the IndexError ends the program
CreateDummyVariablesRaises ==
    /\ pc = "mt_done"
    /\ DummiesRaise
    /\ pc' = "raised"
    /\ UNCHANGED <<files, anno, bin_choice, dicts, nan_as_text, df, y_haplo_data,
                   mt_haplo_data, loop_y, loop_mt, y_df, mt_df, combined_df,
                   combined_df_inds, combined_df_nations>>

\* line 579
Merge ==
    /\ pc = "encoded"
    /\ combined_df' = merge(y_df, mt_df)
    /\ pc' = "merged"
    /\ UNCHANGED <<files, anno, bin_choice, dicts, nan_as_text, df, y_haplo_data,
                   mt_haplo_data, loop_y, loop_mt, y_df, mt_df, combined_df_inds,
                   combined_df_nations>>

\* line 580
CreateTable ==
    /\ pc = "merged"
    /\ combined_df_inds' = SiteLevel(combined_df)
    /\ combined_df_nations' = BinLevel(combined_df)
    /\ pc' = "tabled"
    /\ UNCHANGED <<files, anno, bin_choice, dicts, nan_as_text, df, y_haplo_data,
                   mt_haplo_data, loop_y, loop_mt, y_df, mt_df, combined_df>>

\* line 592, up to the columns of lines 379-381.  On a table without rows
\* the split gives no column to select from: the call may fail there.
CreateWebApplication ==
    /\ pc = "tabled"
    /\ ~SortKeyRaises(combined_df_inds)
    /\ combined_df_inds' = WithSortKey(WithTimeAndCountry(combined_df_inds))
    /\ \/ pc' = "web"
       \/ DOMAIN combined_df_inds = {} /\ pc' = "web_raised"
    /\ UNCHANGED <<files, anno, bin_choice, dicts, nan_as_text, df,
                   y_haplo_data, mt_haplo_data, loop_y, loop_mt, y_df, mt_df,
                   combined_df, combined_df_nations>>

\* line 592 when int() raises in line 381: Time and Country are assigned
CreateWebApplicationRaises ==
    /\ pc = "tabled"
    /\ SortKeyRaises(combined_df_inds)
    /\ combined_df_inds' = WithTimeAndCountry(combined_df_inds)
    /\ pc' = "web_raised"
    /\ UNCHANGED <<files, anno, bin_choice, dicts, nan_as_text, df,
                   y_haplo_data, mt_haplo_data, loop_y, loop_mt, y_df, mt_df,
                   combined_df, combined_df_nations>>

Next ==
    \/ OpenData
    \/ CreateBins
    \/ FindYBasalHaplogroups
    \/ FindMTBasalHaplogroups
    \/ CreateDummyVariables
    \/ CreateDummyVariablesRaises
    \/ Merge
    \/ CreateTable
    \/ CreateWebApplication
    \/ CreateWebApplicationRaises

Spec == Init /\ [][Next]_vars

(***************************************************************************)
(* The two resolvers round by round, entered with the frame that open_data *)
(* and create_bins return.                                                 *)
(***************************************************************************)
ResolverInit ==
    /\ pc = "binned"
    /\ anno \in Batches(ResolverCandidates)
    /\ bin_choice \in BinChoices
    /\ dicts \in AliasConfigs
    /\ files = FilesOf(dicts)
    /\ nan_as_text = TRUE
    /\ df = create_bins(open_data(anno), bin_choice, nan_as_text)
    /\ y_haplo_data = <<>>
    /\ mt_haplo_data = <<>>
    /\ loop_y = 0
    /\ loop_mt = 0
    /\ y_df = <<>>
    /\ mt_df = <<>>
    /\ combined_df = <<>>
    /\ combined_df_inds = <<>>
    /\ combined_df_nations = <<>>

ResolverFrame ==
    <<files, anno, bin_choice, dicts, nan_as_text, y_df, mt_df, combined_df,
      combined_df_inds, combined_df_nations>>

\* lines 137-143
YClean ==
    /\ pc = "binned"
    /\ y_haplo_data' = CleanList(Column(df, "y"))
    /\ loop_y' = 0
    /\ pc' = "y_loop"
    /\ UNCHANGED <<df, mt_haplo_data, loop_mt>>
    /\ UNCHANGED ResolverFrame

\* lines 146-165, one pass of the while body
YRound ==
    /\ pc = "y_loop"
    /\ WhileCondition(y_haplo_data, loop_y)
    /\ loop_y' = loop_y + 1
    /\ y_haplo_data' = YRoundOf(y_haplo_data, dicts)
    /\ df' = SetColumn(df, "y", y_haplo_data')
    /\ UNCHANGED <<pc, mt_haplo_data, loop_mt>>
    /\ UNCHANGED ResolverFrame

\* line 168
YReturn ==
    /\ pc = "y_loop"
    /\ ~WhileCondition(y_haplo_data, loop_y)
    /\ pc' = "y_done"
    /\ UNCHANGED <<df, y_haplo_data, mt_haplo_data, loop_y, loop_mt>>
    /\ UNCHANGED ResolverFrame

\* lines 198-205
MTClean ==
    /\ pc = "y_done"
    /\ mt_haplo_data' = CleanList(Column(df, "mt"))
    /\ loop_mt' = 0
    /\ pc' = "mt_loop"
    /\ UNCHANGED <<df, y_haplo_data, loop_y>>
    /\ UNCHANGED ResolverFrame

\* lines 207-222, one pass of the while body
MTRound ==
    /\ pc = "mt_loop"
    /\ WhileCondition(mt_haplo_data, loop_mt)
    /\ loop_mt' = loop_mt + 1
    /\ mt_haplo_data' = MTRoundOf(mt_haplo_data, dicts)
    /\ UNCHANGED <<pc, df, y_haplo_data, loop_y>>
    /\ UNCHANGED ResolverFrame

\* lines 225-228
MTReturn ==
    /\ pc = "mt_loop"
    /\ ~WhileCondition(mt_haplo_data, loop_mt)
    /\ df' = SetColumn(df, "mt_updated",
                       [i \in 1..Len(df) |-> Some(mt_haplo_data[i])])
    /\ pc' = "mt_done"
    /\ UNCHANGED <<y_haplo_data, mt_haplo_data, loop_y, loop_mt>>
    /\ UNCHANGED ResolverFrame

ResolverNext ==
    \/ YClean
    \/ YRound
    \/ YReturn
    \/ MTClean
    \/ MTRound
    \/ MTReturn

ResolverSpec == ResolverInit /\ [][ResolverNext]_vars

(***************************************************************************)
(* open_data and create_bins over the bin widths and ages above.           *)
(***************************************************************************)
BinInit ==
    /\ pc = "boot"
    /\ anno \in Batches(BinCandidates)
    /\ bin_choice \in BinWidths
    /\ dicts = AliasDicts(<<>>, <<>>, <<>>)
    /\ files = FilesOf(dicts)
    /\ nan_as_text \in BOOLEAN
    /\ df = <<>>
    /\ y_haplo_data = <<>>
    /\ mt_haplo_data = <<>>
    /\ loop_y = 0
    /\ loop_mt = 0
    /\ y_df = <<>>
    /\ mt_df = <<>>
    /\ combined_df = <<>>
    /\ combined_df_inds = <<>>
    /\ combined_df_nations = <<>>

BinNext ==
    \/ OpenData
    \/ CreateBins

BinSpec == BinInit /\ [][BinNext]_vars

(***************************************************************************)
(* The dictionary-building steps of the two resolvers, over the files of   *)
(* DictFiles; one file is given under all five paths.                      *)
(***************************************************************************)
DictInit ==
    /\ pc = "files"
    /\ \E f \in DictFiles :
           files = [y_basal_file |-> f, y_snp_file |-> f, y_locus_file |-> f,
                    mt_basal_file |-> f, mt_snp_file |-> f]
    /\ anno = <<>>
    /\ bin_choice = 1000
    /\ dicts = AliasDicts(<<>>, <<>>, <<>>)
    /\ nan_as_text = TRUE
    /\ df = <<>>
    /\ y_haplo_data = <<>>
    /\ mt_haplo_data = <<>>
    /\ loop_y = 0
    /\ loop_mt = 0
    /\ y_df = <<>>
    /\ mt_df = <<>>
    /\ combined_df = <<>>
    /\ combined_df_inds = <<>>
    /\ combined_df_nations = <<>>

\* lines 132-134
ReadYDicts ==
    /\ pc = "files"
    /\ dicts' = [dicts EXCEPT
                    !.y_basal_dict =
                        read_dict_from_file(files.y_basal_file, 0, 1),
                    !.y_snp_dict = read_dict_from_file(files.y_snp_file, 1, 3),
                    !.y_locus_dict =
                        read_dict_from_file(files.y_locus_file, 1, 3)]
    /\ pc' = "y_dicts"
    /\ UNCHANGED <<files, anno, bin_choice, nan_as_text, df, y_haplo_data,
                   mt_haplo_data, loop_y, loop_mt, y_df, mt_df, combined_df,
                   combined_df_inds, combined_df_nations>>

\* lines 192-195
ReadMTDicts ==
    /\ pc = "y_dicts"
    /\ dicts' = [dicts EXCEPT
                    !.mt_basal_dict =
                        read_dict_from_file(files.mt_basal_file, 0, 1),
                    !.mutant_dict =
                        read_dict_from_file(files.mt_snp_file, 1, 3)]
    /\ pc' = "mt_dicts"
    /\ UNCHANGED <<files, anno, bin_choice, nan_as_text, df, y_haplo_data,
                   mt_haplo_data, loop_y, loop_mt, y_df, mt_df, combined_df,
                   combined_df_inds, combined_df_nations>>

DictNext ==
    \/ ReadYDicts
    \/ ReadMTDicts

DictSpec == DictInit /\ [][DictNext]_vars

(***************************************************************************)
(* The two resolvers on one record that carries the same raw label in both *)
(* tracks, over every label of NormLabels.                                 *)
(***************************************************************************)
NormInit ==
    /\ pc = "binned"
    /\ \E l \in NormLabels :
           anno = <<AnnoRow(1, Num(10), Num(20), Num(500), Some(Peru),
                            Some(l), Some(l))>>
    /\ bin_choice = 1000
    /\ dicts = AliasDicts(<<>>, <<>>, <<>>)
    /\ files = FilesOf(dicts)
    /\ nan_as_text = TRUE
    /\ df = create_bins(open_data(anno), bin_choice, nan_as_text)
    /\ y_haplo_data = <<>>
    /\ mt_haplo_data = <<>>
    /\ loop_y = 0
    /\ loop_mt = 0
    /\ y_df = <<>>
    /\ mt_df = <<>>
    /\ combined_df = <<>>
    /\ combined_df_inds = <<>>
    /\ combined_df_nations = <<>>

NormSpec == NormInit /\ [][ResolverNext]_vars

(***************************************************************************)
(* Properties of the resolvers, checked under ResolverSpec.                *)
(***************************************************************************)
\* a step that is one round of the Y resolver, of the MT resolver
IsYRound == pc = "y_loop" /\ loop_y' = loop_y + 1
IsMTRound == pc = "mt_loop" /\ loop_mt' = loop_mt + 1

\* the table lookups in the words of the specification
HierarchyParent(table, key, value) ==
    \E e \in 1..Len(table) :
        table[e] = <<key, value>> /\ value \notin RootMarkers
HasHierarchyParent(table, key) ==
    \E e \in 1..Len(table) :
        table[e][1] = key /\ table[e][2] \notin RootMarkers
IsCrossRefValue(table, key) == \E e \in 1..Len(table) : table[e][2] = key
IsLocusKey(table, key) == \E e \in 1..Len(table) : table[e][1] = key

\* C1: in every round of the Y resolver a key longer than one character
\* that is not the sentinel is replaced by its hierarchy value when that is
\* not a root marker, else by a key the SNP table maps to it, else by its
\* locus value, else by the sentinel; earlier rules win.
C1_YRoundRule ==
    [][IsYRound =>
        \A i \in 1..Len(y_haplo_data) :
            LET old == y_haplo_data[i]
                new == y_haplo_data'[i]
                r1  == HasHierarchyParent(dicts.y_basal_dict, old)
                r2  == IsCrossRefValue(dicts.y_snp_dict, old)
                r3  == IsLocusKey(dicts.y_locus_dict, old)
            IN  (Len(old) > 1 /\ old # Sentinel) =>
                    /\ r1 => HierarchyParent(dicts.y_basal_dict, old, new)
                    /\ (~r1 /\ r2) =>
                           \E e \in 1..Len(dicts.y_snp_dict) :
                               dicts.y_snp_dict[e] = <<new, old>>
                    /\ (~r1 /\ ~r2 /\ r3) =>
                           \E e \in 1..Len(dicts.y_locus_dict) :
                               dicts.y_locus_dict[e] = <<old, new>>
                    /\ (~r1 /\ ~r2 /\ ~r3) => new = Sentinel]_vars

\* a first round has replaced M1, whose hierarchy value is the Root marker
\* and which is both an SNP value and a locus key, by the SNP key N
C1_Witness ==
    /\ pc = "y_loop"
    /\ loop_y = 1
    /\ \E i \in 1..Len(y_haplo_data) :
        /\ Val(anno[i].y) = L_M1
        /\ y_haplo_data[i] = <<"N">>
        /\ DictHas(dicts.y_basal_dict, L_M1)
        /\ IsCrossRefValue(dicts.y_snp_dict, L_M1)
        /\ IsLocusKey(dicts.y_locus_dict, L_M1)

\* C2: whatever the alias tables (cycles, dangling references) and the
\* batch, neither resolver runs more than 50 rounds: the round counter
\* never exceeds 50 and no round is possible once it is 50.
C2_AtMost50Rounds ==
    /\ loop_y <= MaxLoop
    /\ loop_mt <= MaxLoop
    /\ (pc = "y_loop" /\ loop_y = MaxLoop) => (~ENABLED YRound /\ ENABLED YReturn)
    /\ (pc = "mt_loop" /\ loop_mt = MaxLoop) =>
           (~ENABLED MTRound /\ ENABLED MTReturn)

\* the Y resolver has returned after 50 rounds with a key of the cycle
\* A1 -> B1 -> A1 still in the list
C2_Witness ==
    /\ pc = "y_done"
    /\ loop_y = MaxLoop
    /\ \E i \in 1..Len(y_haplo_data) : y_haplo_data[i] \in {L_A1, L_B1}
    /\ DictHas(dicts.y_basal_dict, L_A1)

YFinished == pc \in {"y_done", "mt_loop", "mt_done"}
MTFinished == pc = "mt_done"

IsBasalLetter(key) == Len(key) = 1 /\ isalpha(key[1])

\* C3 as stated: when a resolver has finished, every key is exactly one
\* alphabetic character or the sentinel.
C3_LetterOrSentinel ==
    /\ YFinished =>
           \A i \in 1..Len(y_haplo_data) :
               IsBasalLetter(y_haplo_data[i]) \/ y_haplo_data[i] = Sentinel
    /\ MTFinished =>
           \A i \in 1..Len(mt_haplo_data) :
               IsBasalLetter(mt_haplo_data[i]) \/ mt_haplo_data[i] = Sentinel

\* C3 amended: when a resolver has finished, every key has at most one
\* character or is 'n/a(Female)', unless that resolver ran all 50 rounds.
C3_ShortUnlessBound ==
    /\ YFinished =>
           \A i \in 1..Len(y_haplo_data) :
               \/ Len(y_haplo_data[i]) <= 1
               \/ y_haplo_data[i] = FemaleSentinel
               \/ loop_y = MaxLoop
    /\ MTFinished =>
           \A i \in 1..Len(mt_haplo_data) :
               \/ Len(mt_haplo_data[i]) <= 1
               \/ mt_haplo_data[i] = FemaleSentinel
               \/ loop_mt = MaxLoop

\* the Y resolver has returned before the bound, one key being the empty
\* string and another one a letter reached through the hierarchy
C3_Witness ==
    /\ pc = "y_done"
    /\ loop_y > 0
    /\ loop_y < MaxLoop
    /\ \E i, j \in 1..Len(y_haplo_data) :
        /\ y_haplo_data[i] = <<>>
        /\ y_haplo_data[j] = L_R
        /\ Val(anno[j].y) = L_R1b_tilde

\* C9: a key that is the sentinel stays the sentinel in every later round.
C9_SentinelStays ==
    [][/\ IsYRound =>
            \A i \in 1..Len(y_haplo_data) :
                y_haplo_data[i] = Sentinel => y_haplo_data'[i] = Sentinel
       /\ IsMTRound =>
            \A i \in 1..Len(mt_haplo_data) :
                mt_haplo_data[i] = Sentinel => mt_haplo_data'[i] = Sentinel]_vars

\* every key has length <= 1 or is the sentinel
Settled(data) ==
    \A i \in 1..Len(data) : Len(data[i]) <= 1 \/ data[i] = Sentinel

\* C10: no round is executed once every key has length <= 1 or is the
\* sentinel.
C10_NoRoundOnceSettled ==
    [][/\ IsYRound => ~Settled(y_haplo_data)
       /\ IsMTRound => ~Settled(mt_haplo_data)]_vars

\* C11: no round of either resolver changes a key of length 1, whatever
\* the alias tables and the other records of the batch; a record whose
\* cleaned label is a single letter has that letter as its resolved key.
C11_SingleLetterFixed ==
    /\ [][/\ IsYRound =>
                \A i \in 1..Len(y_haplo_data) :
                    (Len(y_haplo_data[i]) = 1
                        => y_haplo_data'[i] = y_haplo_data[i])
          /\ IsMTRound =>
                \A i \in 1..Len(mt_haplo_data) :
                    (Len(mt_haplo_data[i]) = 1
                        => mt_haplo_data'[i] = mt_haplo_data[i])]_vars
    /\ [](YFinished =>
            \A i \in 1..Len(y_haplo_data) :
                (IsBasalLetter(CleanHaplo(Val(anno[i].y)))
                    => y_haplo_data[i] = CleanHaplo(Val(anno[i].y))))
    /\ [](MTFinished =>
            \A i \in 1..Len(mt_haplo_data) :
                (IsBasalLetter(CleanHaplo(Val(anno[i].mt)))
                    => mt_haplo_data[i] = CleanHaplo(Val(anno[i].mt))))

\* both resolvers have run at least two rounds on a batch that holds the
\* letter R, which the hierarchy, the SNP file and the locus file all know
\* as a lookup key, and R is still R
C11_Witness ==
    /\ pc = "mt_done"
    /\ loop_y >= 2
    /\ loop_mt >= 2
    /\ DictHas(dicts.y_basal_dict, L_R)
    /\ DictHas(InvertDict(dicts.y_snp_dict), L_R)
    /\ DictHas(dicts.y_locus_dict, L_R)
    /\ \E i \in 1..Len(y_haplo_data) :
        /\ Val(anno[i].y) = L_R
        /\ y_haplo_data[i] = L_R
        /\ mt_haplo_data[i] = L_R

\* the final key of a label when the resolver runs on that record alone
YAlone(raw) == YResolve(<<CleanHaplo(raw)>>, 0, <<raw>>, dicts).data[1]
MTAlone(raw) == MTResolve(<<CleanHaplo(raw)>>, 0, dicts).data[1]

\* C12: the final key of a record in a batch is the key the resolver gives
\* that record when it is run on the record alone.
C12_RecordIndependence ==
    /\ YFinished =>
           \A i \in 1..Len(y_haplo_data) :
               y_haplo_data[i] = YAlone(Val(anno[i].y))
    /\ MTFinished =>
           \A i \in 1..Len(mt_haplo_data) :
               mt_haplo_data[i] = MTAlone(Val(anno[i].mt))

Encoded == pc \in {"encoded", "merged", "tabled"}

\* the per-letter sums the encoder gives the rows of a column of labels;
\* the encoder raises when a label is ''
SumsOfLabels(labels) ==
    [i \in 1..Len(labels) |-> LetterSums(labels[i], labels)]

\* C4: for both tracks the per-letter sums of a record are those of its
\* resolved key, the output of the track's resolver.
C4_EncoderReadsResolved ==
    Encoded =>
        /\ ~KeepRaises(y_haplo_data) =>
               Column(y_df, "y_sum") = SumsOfLabels(y_haplo_data)
        /\ ~KeepRaises(mt_haplo_data) =>
               Column(mt_df, "mt_sum") = SumsOfLabels(mt_haplo_data)

\* the site-level rows that carry the bin key
SiteRowsOf(bin) == {k \in DOMAIN combined_df_inds : k[3] = bin}

\* C5: every value of a bin-level row is the sum of that column over the
\* site-level rows with the same bin key.
C5_Conservation ==
    pc = "tabled" =>
        \A bin \in DOMAIN combined_df_nations :
            LET row   == combined_df_nations[bin]
                sites == SiteRowsOf(bin)
            IN  /\ \A c \in DOMAIN row.y_sum :
                    row.y_sum[c] =
                        SumOver([k \in sites |-> combined_df_inds[k].y_sum[c]],
                                sites)
                /\ \A c \in DOMAIN row.mt_sum :
                    row.mt_sum[c] =
                        SumOver([k \in sites |-> combined_df_inds[k].mt_sum[c]],
                                sites)
                /\ row.y_haplos_sum =
                        SumOver([k \in sites |-> combined_df_inds[k].y_haplos_sum],
                                sites)
                /\ row.mt_haplos_sum =
                        SumOver([k \in sites |-> combined_df_inds[k].mt_haplos_sum],
                                sites)

TotalsAgree(row) ==
    /\ row.y_haplos_sum = SumOver(row.y_sum, DOMAIN row.y_sum)
    /\ row.mt_haplos_sum = SumOver(row.mt_sum, DOMAIN row.mt_sum)

\* C6: in every row of the site-level and of the bin-level table, each
\* track total equals the sum of the track's per-letter columns.
C6_TotalInvariant ==
    pc = "tabled" =>
        /\ \A k \in DOMAIN combined_df_inds : TotalsAgree(combined_df_inds[k])
        /\ \A b \in DOMAIN combined_df_nations :
               TotalsAgree(combined_df_nations[b])

\* both tables hold a row whose Y total of 2 is spread over two letters
C6_Witness ==
    /\ pc = "tabled"
    /\ \E k \in DOMAIN combined_df_inds :
        /\ combined_df_inds[k].y_haplos_sum = 2
        /\ \E c, e \in DOMAIN combined_df_inds[k].y_sum :
            /\ c # e
            /\ combined_df_inds[k].y_sum[c] = 1
            /\ combined_df_inds[k].y_sum[e] = 1
    /\ \E b \in DOMAIN combined_df_nations :
        /\ combined_df_nations[b].y_haplos_sum = 2
        /\ combined_df_nations[b].mt_haplos_sum >= 1

\* a merged row adds nothing to the Y columns of a frequency table
NoYContribution(m) ==
    /\ m.y_haplos_sum = 0
    /\ \A c \in DOMAIN m.y_sum : m.y_sum[c] = 0

\* C7 as stated: a record whose Y key is still longer than one character
\* when the 50-round bound is reached contributes to no per-letter count and
\* to no track total.
C7_UnresolvedNotCounted ==
    (pc \in {"merged", "tabled"} /\ loop_y = MaxLoop) =>
        \A k \in 1..Len(combined_df) :
            Len(combined_df[k].y_x) > 1 => NoYContribution(combined_df[k])

\* str.startswith('n') is False and col[0].isalpha() is True
CountedLabel(label) == isalpha(label[1]) /\ label[1] # "n"

\* the rows of the merged frame in bin b whose Y label is counted under c
CountedRows(b, c) ==
    {k \in 1..Len(combined_df) :
        /\ combined_df[k].CombinedBins = b
        /\ CountedLabel(combined_df[k].y_x)
        /\ combined_df[k].y_x[1] = c}

\* C7 amended: such a record is excluded from the per-letter counts and
\* the total only if its key starts with 'n' or a non-alphabetic character
\* (the sentinel "n/a"); otherwise each of its rows in the merged frame
\* carries 1 for the first character of the key and 1 in the Y total, and
\* the bin-level table adds these rows up.
C7_UnresolvedCountedByFirstLetter ==
    /\ (pc \in {"merged", "tabled"} /\ loop_y = MaxLoop) =>
        \A k \in 1..Len(combined_df) :
            LET m == combined_df[k]
            IN  Len(m.y_x) > 1 =>
                    IF CountedLabel(m.y_x)
                    THEN /\ m.y_x[1] \in DOMAIN m.y_sum
                         /\ m.y_haplos_sum = 1
                         /\ \A c \in DOMAIN m.y_sum :
                                m.y_sum[c] = IF c = m.y_x[1] THEN 1 ELSE 0
                    ELSE NoYContribution(m)
    /\ (pc = "tabled" /\ loop_y = MaxLoop) =>
        \A b \in DOMAIN combined_df_nations :
            \A c \in DOMAIN combined_df_nations[b].y_sum :
                combined_df_nations[b].y_sum[c] = Cardinality(CountedRows(b, c))

\* after 50 rounds one record holds a key of the cycle and is counted under
\* A, another one holds the sentinel and is not counted; the tables exist
C7_Witness ==
    /\ pc = "tabled"
    /\ loop_y = MaxLoop
    /\ \E k, n \in 1..Len(combined_df) :
        /\ combined_df[k].y_x = L_A1
        /\ combined_df[k].y_sum["A"] = 1
        /\ combined_df[n].y_x = Sentinel
        /\ NoYContribution(combined_df[n])
    /\ \E b \in DOMAIN combined_df_nations :
        combined_df_nations[b].y_sum["A"] >= 1

\* C8: a record without a usable age is assigned no bin, and no row of the
\* site-level or of the bin-level table stems from it.
C8_NoAgeNoBin ==
    pc \in {"binned", "y_done", "mt_done", "encoded", "merged", "tabled"} =>
        \A i \in 1..Len(df) :
            IsNaN(df[i].age) =>
                /\ IsNaN(df[i].CombinedBins)
                /\ pc = "tabled" =>
                    /\ df[i].CombinedBins \notin DOMAIN combined_df_nations
                    /\ SiteKey(df[i]) \notin DOMAIN combined_df_inds

\* an annotation row with coordinates that has a classification in at
\* least one track
HasOneTrack(r) ==
    /\ r.lat.kind # "na"
    /\ r.long.kind # "na"
    /\ ~IsNaN(ReplaceText(r.y)) \/ ~IsNaN(ReplaceText(r.mt))

\* C13: a record that has a classification for only one track is retained
\* in the frame the track is resolved and encoded from.
C13_OneTrackRetained ==
    pc # "boot" =>
        \A i \in 1..Len(anno) :
            HasOneTrack(anno[i]) =>
                \E k \in 1..Len(df) : df[k].id = anno[i].id

\* C17: the encoder returns a result for every batch, also when the key of
\* some record is the empty string; no batch makes it raise.
C17_EncoderNeverRaises == pc # "raised"

\* the rows of the merged frame with the site key
SiteGroup(key) == {k \in 1..Len(combined_df) : SiteKey(combined_df[k]) = key}

\* the first row of a group, in the order of the merged frame
FirstOf(group) == CHOOSE k \in group : \A n \in group : k <= n

\* C19: the site-level table has exactly one row for each (latitude,
\* longitude, bin key) of a merged record that has a bin key, and no other
\* row; in that row a numeric column is the sum over the records of the
\* group, a missing value counting 0, and a non-numeric column is the first
\* non-missing value of the group, or missing when there is none.
C19_SiteLevelRows ==
    pc = "tabled" =>
        /\ \A k \in 1..Len(combined_df) :
               ~IsNaN(combined_df[k].CombinedBins) =>
                   SiteKey(combined_df[k]) \in DOMAIN combined_df_inds
        /\ \A key \in DOMAIN combined_df_inds :
            LET group   == SiteGroup(key)
                row     == combined_df_inds[key]
                present == {k \in group : ~IsNaN(combined_df[k].DateBins_x)}
            IN  /\ group # {}
                /\ \A c \in DOMAIN row.y_sum :
                       row.y_sum[c] =
                           SumOver([k \in group |-> combined_df[k].y_sum[c]],
                                   group)
                /\ \A c \in DOMAIN row.mt_sum :
                       row.mt_sum[c] =
                           SumOver([k \in group |-> combined_df[k].mt_sum[c]],
                                   group)
                /\ row.y_haplos_sum =
                       SumOver([k \in group |-> combined_df[k].y_haplos_sum],
                               group)
                /\ row.mt_haplos_sum =
                       SumOver([k \in group |-> combined_df[k].mt_haplos_sum],
                               group)
                /\ row.age_x =
                       SumOver([k \in group |->
                                   IF IsNaN(combined_df[k].age_x) THEN 0
                                   ELSE Val(combined_df[k].age_x)], group)
                /\ row.id = Some(combined_df[FirstOf(group)].id)
                /\ row.DateBins_x =
                       IF present = {} THEN NaN
                       ELSE combined_df[FirstOf(present)].DateBins_x

\* C24: in every row of the site-level table the Country recovered from
\* the bin key is the region the key was built from, for one-word and for
\* multi-word regions.
C24_RegionRoundTrip ==
    pc \in {"web", "web_raised"} =>
        \A i \in 1..Len(df) :
            SiteKey(df[i]) \in DOMAIN combined_df_inds =>
                combined_df_inds[SiteKey(df[i])].Country = Val(df[i].entity)

\* where the parent chain of key ends in the phylogeny file: at a single
\* letter after depth steps, or nowhere within MaxLoop steps
RECURSIVE ChainEnd(_, _, _)
ChainEnd(key, basal, n) ==
    IF Len(key) = 1 /\ isalpha(key[1])
    THEN [reached |-> TRUE, letter |-> key[1], depth |-> n]
    ELSE IF \/ n = MaxLoop
            \/ Len(key) <= 1
            \/ ~DictHas(basal, key)
            \/ DictGet(basal, key) \in RootMarkers
    THEN [reached |-> FALSE, letter |-> "", depth |-> n]
    ELSE ChainEnd(DictGet(basal, key), basal, n + 1)

\* the per-letter sums hold 1 for letter and 0 for every other letter
OneHot(sums, letter) ==
    /\ letter \in DOMAIN sums
    /\ \A c \in DOMAIN sums : sums[c] = IF c = letter THEN 1 ELSE 0

\* C25: with empty cross-reference files, a record whose normalized key
\* reaches a single letter L in d <= 50 steps of the phylogeny file has the
\* resolved key L after at least d rounds, and the encoder gives it 1 for L,
\* 0 for every other letter and the track total 1, in both tracks.
C25_ChainCounted ==
    (/\ pc \in {"encoded", "raised"}
     /\ dicts.y_snp_dict = <<>> /\ dicts.y_locus_dict = <<>>
     /\ dicts.mutant_dict = <<>>) =>
        \A i \in 1..Len(df) :
            LET raw == open_data(anno)[i]
                y   == ChainEnd(CleanHaplo(raw.y), dicts.y_basal_dict, 0)
                mt  == ChainEnd(CleanHaplo(raw.mt), dicts.mt_basal_dict, 0)
            IN  /\ y.reached =>
                    /\ y_haplo_data[i] = <<y.letter>>
                    /\ loop_y >= y.depth
                    /\ pc = "encoded"
                    /\ OneHot(y_df[i].y_sum, y.letter)
                    /\ y_df[i].y_haplos_sum = 1
                /\ mt.reached =>
                    /\ mt_haplo_data[i] = <<mt.letter>>
                    /\ loop_mt >= mt.depth
                    /\ pc = "encoded"
                    /\ OneHot(mt_df[i].mt_sum, mt.letter)
                    /\ mt_df[i].mt_haplos_sum = 1

\* C26: once findYBasalHaplogroups has returned, the Y column of the frame
\* holds the normalized-and-resolved key of every record, also when no
\* round ran; so a record is counted in the Y track exactly when its
\* resolved key is a counted label, whatever the other records are.
C26_YColumnResolved ==
    /\ pc \in {"y_done", "mt_done", "encoded", "raised", "merged", "tabled"} =>
           Column(df, "y") = y_haplo_data
    /\ Encoded =>
           \A i \in 1..Len(y_df) :
               y_haplo_data[i] # <<>> =>
                   (y_df[i].y_haplos_sum = 1 <=> CountedLabel(y_haplo_data[i]))

\* the encoded records of a site group that the track counts
CountedY(key) ==
    {i \in 1..Len(y_df) : SiteKey(y_df[i]) = key /\ y_df[i].y_haplos_sum = 1}

CountedMT(key) ==
    {i \in 1..Len(mt_df) :
        SiteKey(mt_df[i]) = key /\ mt_df[i].mt_haplos_sum = 1}

\* C27: in every site-level row the total of a track is the number of
\* encoded records of the group that the track counts, each record once,
\* also when records share Master ID, bin key, latitude and longitude.
C27_CountsPreserved ==
    pc = "tabled" =>
        \A key \in DOMAIN combined_df_inds :
            /\ combined_df_inds[key].y_haplos_sum = Cardinality(CountedY(key))
            /\ combined_df_inds[key].mt_haplos_sum =
                   Cardinality(CountedMT(key))

\* the sums of an encoded record for the label the encoder read
RecordSums(label, sums, total) ==
    /\ total \in {0, 1}
    /\ total = SumOver(sums, DOMAIN sums)
    /\ \A c \in DOMAIN sums : sums[c] \in {0, 1}
    /\ total = 1 <=> CountedLabel(label)
    /\ total = 1 => OneHot(sums, label[1])

\* C28: before aggregation every encoded record has in each track at most
\* one per-letter sum equal to 1 and the others 0, so a track total of 0 or
\* 1; the total is 1 exactly when the label the encoder reads (the Y column
\* of the frame, the raw mtDNA column) starts with an alphabetic character
\* other than 'n', and the letter credited is that first character.
C28_RecordOneHot ==
    Encoded =>
        /\ \A i \in 1..Len(y_df) :
               RecordSums(y_df[i].y, y_df[i].y_sum, y_df[i].y_haplos_sum)
        /\ \A i \in 1..Len(mt_df) :
               RecordSums(mt_df[i].mt, mt_df[i].mt_sum, mt_df[i].mt_haplos_sum)

\* an encoded batch of two records: one counted under its first letter in
\* the Y track and one not counted, the first with a raw mtDNA label of
\* two characters that is counted under its first character
C28_Witness ==
    /\ pc = "encoded"
    /\ \E i, j \in 1..Len(y_df) :
        /\ y_df[i].y_haplos_sum = 1
        /\ y_df[i].y_sum[y_df[i].y[1]] = 1
        /\ y_df[j].y_haplos_sum = 0
        /\ \E c \in DOMAIN y_df[j].y_sum : y_df[j].y_sum[c] = 0
        /\ Len(mt_df[i].mt) = 2
        /\ mt_df[i].mt_sum[mt_df[i].mt[1]] = 1

(***************************************************************************)
(* Properties of create_bins, checked under BinSpec.                       *)
(***************************************************************************)
\* the age of a row lies in the domain [0, 120000)
InDomain(r) ==
    /\ ~IsNaN(r.age)
    /\ Val(r.age) >= BinStart
    /\ Val(r.age) < BinEnd

\* C14: a record with an age a of the domain has the time-period label
\* "<low>-<low+w-1>" with low = w * floor(a / w), and, when it has a region
\* r, the bin key r + " (" + label + "BP)".
C14_BinLabelFormat ==
    pc = "binned" =>
        \A i \in 1..Len(df) :
            InDomain(df[i]) =>
                LET low   == bin_choice * (Val(df[i].age) \div bin_choice)
                    label == IntToStr(low) \o <<"-">> \o
                             IntToStr(low + bin_choice - 1)
                IN  /\ df[i].DateBins = Some(label)
                    /\ ~IsNaN(df[i].entity) =>
                           df[i].CombinedBins =
                               Some(Val(df[i].entity) \o <<" ", "(">> \o label
                                    \o <<"B", "P", ")">>)

\* with width 7, the age 7 is in the bin that starts at 7 and the age 6 in
\* the bin before it
C14_Witness ==
    /\ pc = "binned"
    /\ bin_choice = 7
    /\ \E i, j \in 1..Len(df) :
        /\ df[i].age = Some(7)
        /\ df[i].CombinedBins =
               Some(<<"P", "e", "r", "u", " ", "(", "7", "-", "1", "3", "B",
                      "P", ")">>)
        /\ df[j].age = Some(6)
        /\ df[j].DateBins = Some(<<"0", "-", "6">>)

\* C15: a record receives a time-period label if and only if its age a
\* satisfies 0 <= a < 120000, whatever the width.
C15_TilesDomainExactly ==
    pc = "binned" =>
        \A i \in 1..Len(df) : ~IsNaN(df[i].DateBins) <=> InDomain(df[i])

\* the two numbers of a label "<l>-<h>"
LabelLow(label) == StrToInt(SplitFirst(label, "-"))
LabelHigh(label) ==
    StrToInt(SubSeq(label, Len(SplitFirst(label, "-")) + 2, Len(label)))

\* C16: two records with ages a1 < a2 and different labels "l1-h1" and
\* "l2-h2" satisfy l1 <= a1 <= h1 < l2 <= a2 <= h2.
C16_BinsOrdered ==
    pc = "binned" =>
        \A i, j \in 1..Len(df) :
            (/\ ~IsNaN(df[i].DateBins)
             /\ ~IsNaN(df[j].DateBins)
             /\ Val(df[i].age) < Val(df[j].age)
             /\ df[i].DateBins # df[j].DateBins) =>
                LET l1 == LabelLow(Val(df[i].DateBins))
                    h1 == LabelHigh(Val(df[i].DateBins))
                    l2 == LabelLow(Val(df[j].DateBins))
                    h2 == LabelHigh(Val(df[j].DateBins))
                IN  /\ l1 <= Val(df[i].age)
                    /\ Val(df[i].age) <= h1
                    /\ h1 < l2
                    /\ l2 <= Val(df[j].age)
                    /\ Val(df[j].age) <= h2

\* the ages 69999 and 70000 lie in neighbouring bins of width 70000
C16_Witness ==
    /\ pc = "binned"
    /\ bin_choice = 70000
    /\ \E i, j \in 1..Len(df) :
        /\ df[i].age = Some(69999)
        /\ df[j].age = Some(70000)
        /\ LabelHigh(Val(df[i].DateBins)) = 69999
        /\ LabelLow(Val(df[j].DateBins)) = 70000
        /\ LabelHigh(Val(df[j].DateBins)) = 139999

(***************************************************************************)
(* Properties of the label clean-up, checked under NormSpec.               *)
(***************************************************************************)
Separators == {";", "-", "("}
Markers == {"~", "*"}

\* the position of the earliest separator of a label, Len + 1 without one
EarliestSeparator(raw) ==
    CHOOSE k \in 1..(Len(raw) + 1) :
        /\ k <= Len(raw) => raw[k] \in Separators
        /\ \A j \in 1..(k - 1) : raw[j] \notin Separators

\* the prefix before the earliest separator, without the markers
Normalized(raw) ==
    SelectSeq(SubSeq(raw, 1, EarliestSeparator(raw) - 1),
              LAMBDA x : x \notin Markers)

\* C20: the list either resolver starts its rounds with holds, for every
\* record, the prefix of the raw label before its earliest ';', '-' or '('
\* with every '~' and '*' removed; it contains none of these five
\* characters, and both tracks compute it the same way.
C20_Normalizer ==
    /\ (pc = "y_loop" /\ loop_y = 0) =>
           \A i \in 1..Len(y_haplo_data) :
               /\ y_haplo_data[i] = Normalized(Val(anno[i].y))
               /\ \A k \in 1..Len(y_haplo_data[i]) :
                      y_haplo_data[i][k] \notin Separators \cup Markers
    /\ (pc = "mt_loop" /\ loop_mt = 0) =>
           \A i \in 1..Len(mt_haplo_data) :
               /\ mt_haplo_data[i] = Normalized(Val(anno[i].mt))
               /\ \A k \in 1..Len(mt_haplo_data[i]) :
                      mt_haplo_data[i][k] \notin Separators \cup Markers

\* the MT resolver starts its rounds with "AB" for the raw label "A*B",
\* and with "A" for the raw label "A(;", whose ';' comes after its '('
C20_Witness ==
    /\ pc = "mt_loop"
    /\ loop_mt = 0
    /\ \/ /\ Val(anno[1].mt) = <<"A", "*", "B">>
          /\ mt_haplo_data[1] = <<"A", "B">>
       \/ /\ Val(anno[1].mt) = <<"A", "(", ";">>
          /\ mt_haplo_data[1] = <<"A">>

\* a non-empty text of spaces only; an empty cell of the annotation file
\* is read as missing and its row is dropped before the clean-up
WhitespaceOnly(raw) == \A k \in 1..Len(raw) : raw[k] = " "

\* C21: the clean-up of a label that consists only of whitespace is the
\* empty string, in both tracks.
C21_WhitespaceToEmpty ==
    /\ (pc = "y_loop" /\ loop_y = 0) =>
           \A i \in 1..Len(y_haplo_data) :
               WhitespaceOnly(Val(anno[i].y)) => y_haplo_data[i] = <<>>
    /\ (pc = "mt_loop" /\ loop_mt = 0) =>
           \A i \in 1..Len(mt_haplo_data) :
               WhitespaceOnly(Val(anno[i].mt)) => mt_haplo_data[i] = <<>>

(***************************************************************************)
(* Properties of read_dict_from_file, checked under DictSpec.              *)
(***************************************************************************)
\* the positions at which a whitespace-separated field of a line starts
FieldStarts(line) ==
    {k \in 1..Len(line) :
        /\ line[k] \notin Whitespace
        /\ k = 1 \/ line[k - 1] \in Whitespace}

NumFields(line) == Cardinality(FieldStarts(line))

\* the field of index n (from 0) of a line that has more than n fields
Field(line, n) ==
    LET start == CHOOSE k \in FieldStarts(line) :
                     Cardinality({j \in FieldStarts(line) : j < k}) = n
        stop  == CHOOSE e \in start..Len(line) :
                     /\ e = Len(line) \/ line[e + 1] \in Whitespace
                     /\ \A j \in start..e : line[j] \notin Whitespace
    IN  SubSeq(line, start, stop)

\* the lines of a file that give a pair for the two indices
PairLines(lines, key_index, value_index) ==
    {j \in 1..Len(lines) :
        /\ NumFields(lines[j]) >= key_index + 1
        /\ NumFields(lines[j]) >= value_index + 1}

\* d holds exactly the pairs of the lines with enough fields, the last
\* line of a key giving its value, and every key once
IsMappingOf(d, lines, key_index, value_index) ==
    LET pairs == PairLines(lines, key_index, value_index)
    IN  /\ \A j \in pairs : DictHas(d, Field(lines[j], key_index))
        /\ \A e \in 1..Len(d) :
               /\ \E j \in pairs :
                      /\ Field(lines[j], key_index) = d[e][1]
                      /\ Field(lines[j], value_index) = d[e][2]
                      /\ \A n \in pairs :
                             Field(lines[n], key_index) = d[e][1] => n <= j
               /\ \A g \in 1..Len(d) : d[g][1] = d[e][1] => g = e

\* C22: each dictionary holds exactly the pairs (field[key_index] ->
\* field[value_index]) of the lines of its file that have at least
\* max(key_index, value_index) + 1 whitespace-separated fields, a later line
\* overriding an earlier one; every other line is skipped.
C22_AliasTableBuilder ==
    /\ pc \in {"y_dicts", "mt_dicts"} =>
        /\ IsMappingOf(dicts.y_basal_dict, files.y_basal_file, 0, 1)
        /\ IsMappingOf(dicts.y_snp_dict, files.y_snp_file, 1, 3)
        /\ IsMappingOf(dicts.y_locus_dict, files.y_locus_file, 1, 3)
    /\ pc = "mt_dicts" =>
        /\ IsMappingOf(dicts.mt_basal_dict, files.mt_basal_file, 0, 1)
        /\ IsMappingOf(dicts.mutant_dict, files.mt_snp_file, 1, 3)

\* a file of two lines for the key A1: the second line overrides the first
\* in the phylogeny dictionary, and both are too short for the SNP
\* dictionary, which stays empty
C22_Witness ==
    /\ pc = "mt_dicts"
    /\ Len(files.y_basal_file) = 2
    /\ files.y_basal_file[1] = <<"A", "1", " ", "B", "1">>
    /\ dicts.y_basal_dict = << <<L_A1, L_R>> >>
    /\ dicts.mt_basal_dict = << <<L_A1, L_R>> >>
    /\ dicts.y_snp_dict = <<>>

====
